---- MODULE Spec2Model ----
(***************************************************************************)
(* LifeSmart credit-card calculator: the calculator component              *)
(* (CreditCardCalculator.tsx) and the projection chart                      *)
(* (InvestmentChart.tsx).                                                   *)
(*                                                                         *)
(* Numbers.  A JavaScript number is modelled as a pair <<n, d>>:           *)
(*   d > 0          the finite value n/d, in lowest terms;                  *)
(*   <<0, 0>>       NaN;   <<1, 0>>  +Infinity;   <<-1, 0>>  -Infinity.     *)
(* Finite arithmetic is exact (the rounding error of IEEE doubles is not   *)
(* modelled, nor is the sign of zero); NaN and the infinities arise and    *)
(* propagate as in IEEE 754.  null is the pair <<0, -1>>.                   *)
(*                                                                         *)
(* Text.  The content of an input field is a sequence of one-character     *)
(* strings; Number(...) and String(...) are ParseNumber and NumberToString. *)
(***************************************************************************)
EXTENDS Integers, Sequences, FiniteSets, TLC

(***************************************************************************)
(* JavaScript numbers                                                      *)
(***************************************************************************)
Abs(i) == IF i < 0 THEN -i ELSE i

RECURSIVE GCD(_, _)
GCD(a, b) == IF b = 0 THEN a ELSE GCD(b, a % b)

NaN == <<0, 0>>
PosInfinity == <<1, 0>>
NegInfinity == <<-1, 0>>
Null == <<0, -1>>

\* n/d in lowest terms with a positive denominator (d # 0)
Norm(n, d) ==
    LET g == GCD(Abs(n), Abs(d))
        s == IF d < 0 THEN -1 ELSE 1
    IN  <<(s * n) \div g, (s * d) \div g>>

Num(i) == <<i, 1>>

IsNull(v) == v = Null
IsNaN(v) == v = NaN
IsFinite(v) == v[2] > 0
IsInfinite(v) == v[2] = 0 /\ v[1] # 0
Sign(v) == IF v[1] > 0 THEN 1 ELSE IF v[1] < 0 THEN -1 ELSE 0
IsInteger(v) == v[2] = 1
Infinity(s) == IF s < 0 THEN NegInfinity ELSE PosInfinity

Neg(a) == <<-a[1], a[2]>>

\* a * b
Mul(a, b) ==
    IF IsNaN(a) \/ IsNaN(b) THEN NaN
    ELSE IF IsInfinite(a) \/ IsInfinite(b)
         THEN IF Sign(a) = 0 \/ Sign(b) = 0 THEN NaN ELSE Infinity(Sign(a) * Sign(b))
    ELSE LET g1 == GCD(Abs(a[1]), b[2])
             g2 == GCD(Abs(b[1]), a[2])
         IN  <<(a[1] \div g1) * (b[1] \div g2), (a[2] \div g2) * (b[2] \div g1)>>

\* a / b
Div(a, b) ==
    IF IsNaN(a) \/ IsNaN(b) THEN NaN
    ELSE IF IsInfinite(b) THEN (IF IsInfinite(a) THEN NaN ELSE Num(0))
    ELSE IF Sign(b) = 0 THEN (IF Sign(a) = 0 THEN NaN ELSE Infinity(Sign(a)))
    ELSE IF IsInfinite(a) THEN Infinity(Sign(a) * Sign(b))
    ELSE Mul(a, Norm(b[2], b[1]))

\* a + b
Add(a, b) ==
    IF IsNaN(a) \/ IsNaN(b) THEN NaN
    ELSE IF IsInfinite(a) /\ IsInfinite(b) THEN (IF a = b THEN a ELSE NaN)
    ELSE IF IsInfinite(a) THEN a
    ELSE IF IsInfinite(b) THEN b
    ELSE LET g == GCD(a[2], b[2])
         IN  Norm(a[1] * (b[2] \div g) + b[1] * (a[2] \div g), (a[2] \div g) * b[2])

\* a - b
Sub(a, b) == Add(a, Neg(b))

\* a < b, a <= b, a > b: every comparison with NaN is false
Lt(a, b) ==
    /\ ~IsNaN(a) /\ ~IsNaN(b)
    /\ IF IsFinite(a) /\ IsFinite(b) THEN a[1] * b[2] < b[1] * a[2]
       ELSE IF IsFinite(a) THEN b = PosInfinity
       ELSE IF IsFinite(b) THEN a = NegInfinity
       ELSE a = NegInfinity /\ b = PosInfinity
Le(a, b) == ~IsNaN(a) /\ ~IsNaN(b) /\ (a = b \/ Lt(a, b))
Gt(a, b) == Lt(b, a)

\* Math.max / Math.min: NaN if either argument is NaN
MathMax(a, b) == IF IsNaN(a) \/ IsNaN(b) THEN NaN ELSE IF Lt(a, b) THEN b ELSE a
MathMin(a, b) == IF IsNaN(a) \/ IsNaN(b) THEN NaN ELSE IF Lt(b, a) THEN b ELSE a

\* floor of a finite value (an integer of TLA+)
Floor(a) == a[1] \div a[2]

\* Math.round: the nearest integer, a tie going up; NaN and the infinities unchanged
MathRound(a) == IF IsFinite(a) THEN Num((2 * a[1] + a[2]) \div (2 * a[2])) ELSE a

\* Math.pow(base, e) for an integer number of months e
RECURSIVE PowNat(_, _)
PowNat(base, k) ==
    IF k = 0 THEN Num(1)
    ELSE LET half == PowNat(base, k \div 2)
             square == Mul(half, half)
         IN  IF k % 2 = 1 THEN Mul(square, base) ELSE square
MathPow(base, e) ==
    IF e = Num(0) THEN Num(1)
    ELSE IF IsNaN(base) \/ IsNaN(e) THEN NaN
    ELSE IF e[1] > 0 THEN PowNat(base, e[1])
    ELSE Div(Num(1), PowNat(base, -e[1]))

\* x || 0 on a number: 0 and NaN are falsy
OrZero(x) == IF IsNaN(x) \/ x = Num(0) THEN Num(0) ELSE x
\* x ?? dflt
Coalesce(x, dflt) == IF IsNull(x) THEN dflt ELSE x
\* x || dflt with a number or null on the left: null, 0 and NaN give dflt
OrDefault(x, dflt) == IF IsNull(x) \/ IsNaN(x) \/ x = Num(0) THEN dflt ELSE x

(***************************************************************************)
(* Field text: Number(text), String(number), <input type="number">         *)
(***************************************************************************)
DigitChars == <<"0", "1", "2", "3", "4", "5", "6", "7", "8", "9">>
IsDigit(c) == \E i \in 1..10 : DigitChars[i] = c
DigitValue(c) == (CHOOSE i \in 1..10 : DigitChars[i] = c) - 1

RECURSIVE DigitsValue(_, _)
DigitsValue(s, acc) ==
    IF s = <<>> THEN acc ELSE DigitsValue(Tail(s), 10 * acc + DigitValue(Head(s)))

RECURSIVE PowerOfTen(_)
PowerOfTen(k) == IF k = 0 THEN 1 ELSE 10 * PowerOfTen(k - 1)

Unsigned(s) == IF s # <<>> /\ Head(s) = "-" THEN Tail(s) ELSE s
DotAt(s) == IF \E i \in 1..Len(s) : s[i] = "."
            THEN CHOOSE i \in 1..Len(s) : s[i] = "." /\ \A j \in 1..(i - 1) : s[j] # "."
            ELSE 0
IntegerPart(s) == IF DotAt(s) = 0 THEN s ELSE SubSeq(s, 1, DotAt(s) - 1)
FractionPart(s) == IF DotAt(s) = 0 THEN <<>> ELSE SubSeq(s, DotAt(s) + 1, Len(s))
AllDigits(s) == \A i \in 1..Len(s) : IsDigit(s[i])

\* a decimal numeral: an optional "-", digits, optionally "." and more digits
IsValidFloat(s) ==
    LET u == Unsigned(s)
    IN  /\ IntegerPart(u) # <<>> /\ AllDigits(IntegerPart(u))
        /\ AllDigits(FractionPart(u))
        /\ (DotAt(u) # 0 => FractionPart(u) # <<>>)

\* Number(text)
ParseNumber(s) ==
    IF s = <<>> THEN Num(0)
    ELSE IF ~IsValidFloat(s) THEN NaN
    ELSE LET u == Unsigned(s)
             m == DigitsValue(IntegerPart(u) \o FractionPart(u), 0)
             v == Norm(m, PowerOfTen(Len(FractionPart(u))))
         IN  IF Head(s) = "-" THEN Neg(v) ELSE v

\* the value an <input type="number"> reports for what was typed into it:
\* the empty string unless the text is a valid number
TargetValue(raw) == IF IsValidFloat(raw) THEN raw ELSE <<>>

RECURSIVE NatToString(_)
NatToString(n) ==
    IF n < 10 THEN <<DigitChars[n + 1]>>
    ELSE NatToString(n \div 10) \o <<DigitChars[(n % 10) + 1]>>

MaxFractionDigits == 6

RECURSIVE FractionDigits(_, _, _)
FractionDigits(r, d, k) ==
    IF r = 0 \/ k = 0 THEN <<>>
    ELSE <<DigitChars[((10 * r) \div d) + 1]>> \o FractionDigits((10 * r) % d, d, k - 1)

\* String(v)
NumberToString(v) ==
    IF IsNaN(v) THEN <<"N", "a", "N">>
    ELSE IF IsInfinite(v) THEN (IF Sign(v) < 0 THEN <<"-">> ELSE <<>>) \o <<"I", "n", "f">>
    ELSE LET a == Abs(v[1])
             whole == NatToString(a \div v[2])
             frac == FractionDigits(a % v[2], v[2], MaxFractionDigits)
         IN  (IF v[1] < 0 THEN <<"-">> ELSE <<>>) \o whole
             \o (IF frac = <<>> THEN <<>> ELSE <<".">> \o frac)

\* value={x || ''} as the field then reports it in an event
ValueProp(x) == IF IsNaN(x) \/ x = Num(0) THEN <<>> ELSE TargetValue(NumberToString(x))

(***************************************************************************)
(* What the user can type or drag                                          *)
(***************************************************************************)
MonthlySpendTexts == { <<>>, <<"-">>, <<"-", "5">>, <<"2", "0", "0">> }
PaidOffTexts == { <<>>, <<"2", "9">>, <<"-", "1", "0", "0">>, <<"5", "0", "0", "0">> }
AprTexts == { <<>>, <<"-", "3">>, <<"3", "0", "0">> }
TimePeriodTexts == { <<>>, <<"0">>, <<"1">>, <<"-", "1">>, <<"0", ".", "5">> }
ReturnRateTexts == { <<>>, <<"0">>, <<"1", "2", "0", "0">>, <<"-", "1", "2", "0", "0">> }
\* slider positions: the desktop slider moves in steps of 5, the mobile one in steps of 1
DesktopSliderTexts == { <<"5">>, <<"1", "0", "0">> }
MobileSliderTexts == { <<"3", "3">>, <<"1", "0", "0">> }
\* window.innerWidth on either side of the md breakpoint
WindowWidths == { 767, 768 }
MobileBreakpoint == 768

\* pending 300 ms animation timers the model lets accumulate
MaxTimers == 1
\* the same while keys are typed in quick succession
MaxPending == 2
\* keys typed into one field in a row
MaxKeys == 3
\* clicks on the dark-mode toggle
MaxToggles == 2

\* getAttribute and getItem give null or a string: <<>> or <<string>>
Absent == <<>>

(***************************************************************************)
(* State of CreditCardCalculator                                           *)
(***************************************************************************)
VARIABLES
    inputs,            \* CalculatorInputs: monthlySpend, balanceCarriedPercent, apr
    investmentInputs,  \* InvestmentInputs: timePeriod, returnRate (a number or Null)
    isMobile,          \* useState(false), set by checkMobile
    isAnimating,       \* useState(false)
    timers,            \* pending setTimeout(() => setIsAnimating(false), 300) callbacks
    lastEvent,         \* the handler that ran last and the text it was given
    typed              \* the keys typed into the desktop paid-off field since it was empty

\* The page around the calculator: the host's attributes, the theme and its storage
VARIABLES
    hostAttributes,    \* data-mode and data-transparent-background of the host container
    strictMode,        \* React.StrictMode runs the mount effects twice (development build)
    prefersDark,       \* window.matchMedia('(prefers-color-scheme: dark)').matches
    localStorage,      \* localStorage.getItem('darkMode')
    savedDarkMode,     \* what localStorage held when the page was loaded
    darkMode,          \* useState(false)
    isLoaded,          \* useState(false)
    rootElement,       \* data-theme and the class 'dark' of the element with id root
    effects,           \* the effects React has still to run, in order
    updates,           \* the setDarkMode calls the next render will apply
    loadTimers,        \* pending setTimeout(() => setIsLoaded(true), 100) callbacks
    toggles            \* clicks on the toggle so far

calculatorVars == <<inputs, investmentInputs, isMobile, isAnimating, timers, lastEvent, typed>>
themeVars ==
    <<hostAttributes, strictMode, prefersDark, localStorage, savedDarkMode, darkMode,
      isLoaded, rootElement, effects, updates, loadTimers, toggles>>
vars == <<calculatorVars, themeVars>>

Event(h, text) == [handler |-> h, text |-> text]

\* useState(...) of the calculator, lines 23-37
CalculatorMounted ==
    /\ investmentInputs = [timePeriod |-> Num(10), returnRate |-> Num(9)]
    /\ isMobile = FALSE
    /\ isAnimating = FALSE
    /\ timers = 0
    /\ lastEvent = Event("mount", <<>>)
    /\ typed = <<>>

\* the page once its mount effects have settled, for a host that sets no attribute, a
\* browser that prefers light and an empty localStorage: the light theme, saved as 'false'
ThemeSettled ==
    /\ hostAttributes = [mode |-> Absent, transparentBackground |-> Absent]
    /\ strictMode = FALSE
    /\ prefersDark = FALSE
    /\ localStorage = <<"false">>
    /\ savedDarkMode = Absent
    /\ darkMode = FALSE
    /\ isLoaded = TRUE
    /\ rootElement = [dataTheme |-> <<"light">>, dark |-> FALSE]
    /\ effects = <<>>
    /\ updates = <<>>
    /\ loadTimers = 0
    /\ toggles = 0

Init ==
    /\ inputs = [monthlySpend |-> Num(2000), balanceCarriedPercent |-> Num(50), apr |-> Num(23)]
    /\ CalculatorMounted
    /\ ThemeSettled

(***************************************************************************)
(* Derived scalars (recomputed on every render)                            *)
(***************************************************************************)
PaidOffBalanceOf(in) == Mul(in.monthlySpend, Div(in.balanceCarriedPercent, Num(100)))
\* the carried balance taken to be the paid-off share
PaidOffShareAsCarriedBalance(in) == PaidOffBalanceOf(in)

CarriedBalanceOf(in) == Sub(in.monthlySpend, PaidOffBalanceOf(in))
AnnualInterestOf(in) == Mul(CarriedBalanceOf(in), Div(in.apr, Num(100)))
MonthlySavingsOf(in) == Div(AnnualInterestOf(in), Num(12))

paidOffBalance == PaidOffBalanceOf(inputs)
carriedBalance == CarriedBalanceOf(inputs)
annualInterest == AnnualInterestOf(inputs)
monthlySavings == MonthlySavingsOf(inputs)

(***************************************************************************)
(* handleInputChange / handleInvestmentChange                              *)
(***************************************************************************)
\* the handler spreading the initial object instead of prev
ResettingHandleInputChange(field, value, ev) ==
    /\ timers < MaxTimers
    /\ inputs' = [[monthlySpend |-> Num(2000), balanceCarriedPercent |-> Num(50),
                   apr |-> Num(23)] EXCEPT ![field] = value]
    /\ isAnimating' = TRUE
    /\ timers' = timers + 1
    /\ lastEvent' = ev
    /\ typed' = <<>>
    /\ UNCHANGED <<investmentInputs, isMobile, themeVars>>

\* the keys typed into the desktop paid-off field so far: a key typed there adds the
\* last character of the field, any other calculator edit starts afresh
TypedAfter(ev) ==
    IF ev.handler = "desktopPaidOffKeystroke"
    THEN Append(typed, ev.text[Len(ev.text)])
    ELSE <<>>

\* handleInputChange with at most the given number of timers pending
handleInputChangeWithin(pending, field, value, ev) ==
    /\ timers < pending
    /\ inputs' = [inputs EXCEPT ![field] = value]
    /\ isAnimating' = TRUE
    /\ timers' = timers + 1
    /\ lastEvent' = ev
    /\ typed' = TypedAfter(ev)
    /\ UNCHANGED <<investmentInputs, isMobile, themeVars>>

handleInputChange(field, value, ev) ==
    handleInputChangeWithin(MaxTimers, field, value, ev)

\* handleInvestmentChange with at most the given number of timers pending
handleInvestmentChangeWithin(pending, field, value, ev) ==
    /\ timers < pending
    /\ investmentInputs' = [investmentInputs EXCEPT ![field] = value]
    /\ isAnimating' = TRUE
    /\ timers' = timers + 1
    /\ lastEvent' = ev
    /\ UNCHANGED <<inputs, isMobile, typed, themeVars>>

handleInvestmentChange(field, value, ev) ==
    handleInvestmentChangeWithin(MaxTimers, field, value, ev)

\* the timer's callback written as a toggle, setIsAnimating(prev => !prev)
TogglingAnimationTimeout ==
    /\ timers > 0
    /\ timers' = timers - 1
    /\ isAnimating' = ~isAnimating
    /\ lastEvent' = Event("timeout", <<>>)
    /\ UNCHANGED <<inputs, investmentInputs, isMobile, typed, themeVars>>

\* a timer set by one of the two handlers fires
AnimationTimeout ==
    /\ timers > 0
    /\ timers' = timers - 1
    /\ isAnimating' = FALSE
    /\ lastEvent' = Event("timeout", <<>>)
    /\ UNCHANGED <<inputs, investmentInputs, isMobile, typed, themeVars>>

\* checkMobile, on mount and on every resize
checkMobile ==
    \E innerWidth \in WindowWidths :
        /\ isMobile' = (innerWidth < MobileBreakpoint)
        /\ lastEvent' = Event("resize", <<>>)
        /\ UNCHANGED <<inputs, investmentInputs, isAnimating, timers, typed, themeVars>>

\* e.target.value === '' ? 0 : Number(e.target.value)
NumberOrZero(text) == IF text = <<>> THEN Num(0) ELSE ParseNumber(text)
\* e.target.value === '' ? null : Number(e.target.value)
NumberOrNull(text) == IF text = <<>> THEN Null ELSE ParseNumber(text)
\* e.target.value === '' || Number(e.target.value) < 0
BlankOrNegative(text) == text = <<>> \/ Lt(ParseNumber(text), Num(0))

(***************************************************************************)
(* MobileCalculatorCard handlers                                           *)
(***************************************************************************)
MobileMonthlySpendChange ==
    \E raw \in MonthlySpendTexts :
        LET value == NumberOrZero(TargetValue(raw))
        IN  /\ isMobile
            /\ handleInputChange("monthlySpend", MathMax(Num(0), value),
                                 Event("mobileMonthlySpendChange", raw))

MobileMonthlySpendBlur ==
    /\ isMobile
    /\ BlankOrNegative(ValueProp(inputs.monthlySpend))
    /\ handleInputChange("monthlySpend", Num(0), Event("mobileMonthlySpendBlur", <<>>))

\* the conversion without its monthlySpend > 0 test
UnguardedMobilePaidOffPercent(value, monthlySpend) ==
    MathMin(Num(100), Mul(Div(value, monthlySpend), Num(100)))

MobilePaidOffPercent(value, monthlySpend) ==
    IF Gt(monthlySpend, Num(0))
    THEN MathMin(Num(100), Mul(Div(value, monthlySpend), Num(100)))
    ELSE Num(0)

MobilePaidOffChange ==
    \E raw \in PaidOffTexts :
        LET value == NumberOrZero(TargetValue(raw))
        IN  /\ isMobile
            /\ handleInputChange("balanceCarriedPercent",
                                 MobilePaidOffPercent(value, inputs.monthlySpend),
                                 Event("mobilePaidOffChange", raw))

MobilePaidOffBlur ==
    /\ isMobile
    /\ BlankOrNegative(ValueProp(paidOffBalance))
    /\ handleInputChange("balanceCarriedPercent", Num(0), Event("mobilePaidOffBlur", <<>>))

MobileSliderChange ==
    \E raw \in MobileSliderTexts :
        /\ isMobile
        /\ handleInputChange("balanceCarriedPercent", ParseNumber(raw),
                             Event("mobileSliderChange", raw))

MobileApr(value) == MathMax(Num(0), MathMin(Num(100), value))

MobileAprChange ==
    \E raw \in AprTexts :
        LET value == NumberOrZero(TargetValue(raw))
        IN  /\ isMobile
            /\ handleInputChange("apr", MobileApr(value), Event("mobileAprChange", raw))

MobileAprBlur ==
    /\ isMobile
    /\ BlankOrNegative(ValueProp(inputs.apr))
    /\ handleInputChange("apr", Num(0), Event("mobileAprBlur", <<>>))

(***************************************************************************)
(* Desktop handlers                                                        *)
(***************************************************************************)
\* the onChange without Math.max(0, value)
UnclampedDesktopMonthlySpendChange ==
    \E raw \in MonthlySpendTexts :
        LET value == NumberOrZero(TargetValue(raw))
        IN  /\ ~isMobile
            /\ handleInputChange("monthlySpend", value,
                                 Event("desktopMonthlySpendChange", raw))

DesktopMonthlySpendChange ==
    \E raw \in MonthlySpendTexts :
        LET value == NumberOrZero(TargetValue(raw))
        IN  /\ ~isMobile
            /\ handleInputChange("monthlySpend", MathMax(Num(0), value),
                                 Event("desktopMonthlySpendChange", raw))

DesktopMonthlySpendBlur ==
    /\ ~isMobile
    /\ BlankOrNegative(ValueProp(inputs.monthlySpend))
    /\ handleInputChange("monthlySpend", Num(0), Event("desktopMonthlySpendBlur", <<>>))

\* the conversion without Math.round
UnroundedDesktopPaidOffPercent(dollarAmount, monthlySpend) ==
    IF Gt(monthlySpend, Num(0))
    THEN MathMin(Num(100), MathMax(Num(0), Mul(Div(dollarAmount, monthlySpend), Num(100))))
    ELSE Num(0)

\* the conversion storing the share that is carried over, as the field's name suggests
CarriedShareDesktopPaidOffPercent(dollarAmount, monthlySpend) ==
    IF Gt(monthlySpend, Num(0))
    THEN LET percentage == MathRound(Mul(Div(dollarAmount, monthlySpend), Num(100)))
         IN  Sub(Num(100), MathMin(Num(100), MathMax(Num(0), percentage)))
    ELSE Num(0)

DesktopPaidOffPercent(dollarAmount, monthlySpend) ==
    IF Gt(monthlySpend, Num(0))
    THEN LET percentage == MathRound(Mul(Div(dollarAmount, monthlySpend), Num(100)))
         IN  MathMin(Num(100), MathMax(Num(0), percentage))
    ELSE Num(0)

DesktopPaidOffChange ==
    \E raw \in PaidOffTexts :
        LET dollarAmount == NumberOrZero(TargetValue(raw))
        IN  /\ ~isMobile
            /\ handleInputChange("balanceCarriedPercent",
                                 DesktopPaidOffPercent(dollarAmount, inputs.monthlySpend),
                                 Event("desktopPaidOffChange", raw))

DesktopPaidOffBlur ==
    LET text == ValueProp(paidOffBalance)
        percentage == MathRound(Mul(Div(ParseNumber(text), inputs.monthlySpend), Num(100)))
    IN  /\ ~isMobile
        /\ IF BlankOrNegative(text)
           THEN handleInputChange("balanceCarriedPercent", Num(0),
                                  Event("desktopPaidOffBlur", <<>>))
           ELSE /\ Gt(inputs.monthlySpend, Num(0))
                /\ Gt(percentage, Num(100))
                /\ handleInputChange("balanceCarriedPercent", Num(100),
                                     Event("desktopPaidOffBlur", <<>>))

DesktopSliderChange ==
    \E raw \in DesktopSliderTexts :
        /\ ~isMobile
        /\ handleInputChange("balanceCarriedPercent", ParseNumber(raw),
                             Event("desktopSliderChange", raw))

DesktopApr(value) == MathMax(Num(0), value)

DesktopAprChange ==
    \E raw \in AprTexts :
        LET value == NumberOrZero(TargetValue(raw))
        IN  /\ ~isMobile
            /\ handleInputChange("apr", DesktopApr(value), Event("desktopAprChange", raw))

DesktopAprBlur ==
    /\ ~isMobile
    /\ BlankOrNegative(ValueProp(inputs.apr))
    /\ handleInputChange("apr", Num(0), Event("desktopAprBlur", <<>>))

(***************************************************************************)
(* Typing key by key on the desktop layout.  The fields are controlled:    *)
(* after every key React puts the value prop back into the field, so the   *)
(* next key is added to what the state gives, not to what was typed.  Keys *)
(* may follow each other faster than the 300 ms timers fire.               *)
(***************************************************************************)
\* the keys pressed in the paid-off field and in the time-period field
PaidOffKeys == {"1", "2", "9"}
TimePeriodKeys == {"0", "1"}

\* a key typed at the end of the paid-off field, value={paidOffBalance || ''}, and the
\* field's onChange; a run of keys starts in the empty field
DesktopPaidOffKeystroke ==
    \E key \in PaidOffKeys :
        LET raw == ValueProp(paidOffBalance) \o <<key>>
            dollarAmount == NumberOrZero(TargetValue(raw))
        IN  /\ ~isMobile
            /\ Len(typed) < MaxKeys
            /\ typed = <<>> => ValueProp(paidOffBalance) = <<>>
            /\ handleInputChangeWithin(MaxPending, "balanceCarriedPercent",
                                       DesktopPaidOffPercent(dollarAmount, inputs.monthlySpend),
                                       Event("desktopPaidOffKeystroke", raw))

\* a key typed at the end of the time-period field, value={investmentInputs.timePeriod || ''}
TimePeriodKeystroke ==
    \E key \in TimePeriodKeys :
        LET shown == IF IsNull(investmentInputs.timePeriod)
                     THEN <<>>
                     ELSE ValueProp(investmentInputs.timePeriod)
            raw == shown \o <<key>>
        IN  /\ ~isMobile
            /\ Len(raw) <= MaxKeys
            /\ handleInvestmentChangeWithin(MaxPending, "timePeriod",
                                            NumberOrNull(TargetValue(raw)),
                                            Event("timePeriodKeystroke", raw))

\* the desktop layout with both fields cleared (paid-off share 0, no horizon), every
\* timer fired, for a spend of 2000 or of 200
TypingInit ==
    /\ \E spend \in {2000, 200} :
           inputs = [monthlySpend |-> Num(spend), balanceCarriedPercent |-> Num(0),
                     apr |-> Num(23)]
    /\ investmentInputs = [timePeriod |-> Null, returnRate |-> Num(9)]
    /\ isMobile = FALSE
    /\ isAnimating = FALSE
    /\ timers = 0
    /\ lastEvent = Event("timeout", <<>>)
    /\ typed = <<>>
    /\ ThemeSettled

(***************************************************************************)
(* Investment inputs: the calculator's own pair on the desktop layout, the *)
(* chart's pair (onInvestmentChange) on the mobile layout                  *)
(***************************************************************************)
TimePeriodChange ==
    \E raw \in TimePeriodTexts :
        /\ ~isMobile
        /\ handleInvestmentChange("timePeriod", NumberOrNull(TargetValue(raw)),
                                  Event("timePeriodChange", raw))

ReturnRateChange ==
    \E raw \in ReturnRateTexts :
        /\ ~isMobile
        /\ handleInvestmentChange("returnRate", NumberOrNull(TargetValue(raw)),
                                  Event("returnRateChange", raw))

ChartTimePeriodChange ==
    \E raw \in TimePeriodTexts :
        /\ isMobile
        /\ handleInvestmentChange("timePeriod", NumberOrNull(TargetValue(raw)),
                                  Event("chartTimePeriodChange", raw))

ChartReturnRateChange ==
    \E raw \in ReturnRateTexts :
        /\ isMobile
        /\ handleInvestmentChange("returnRate", NumberOrNull(TargetValue(raw)),
                                  Event("chartReturnRateChange", raw))

(***************************************************************************)
(* The page: the configuration read from the host (index.tsx) and the      *)
(* dark mode of the calculator.  React runs the effects of a render in     *)
(* order, then applies the state updates they queued in one render, whose  *)
(* effects run in turn; a click is handled once all of that has settled.   *)
(***************************************************************************)
HostModes == { Absent, <<"">>, <<"auto">>, <<"light">>, <<"dark">>, <<"blue">> }
HostTransparentBackgrounds == { Absent, <<"true">>, <<"TRUE">> }
StoredDarkModes == { Absent, <<"true">>, <<"false">> }

\* container?.getAttribute(name) || dflt: null and '' give dflt
AttributeOr(attribute, dflt) ==
    IF attribute = Absent \/ attribute = <<"">> THEN dflt ELSE attribute[1]

\* index.tsx: const config = { mode: ..., transparentBackground: ... }
config ==
    [mode |-> AttributeOr(hostAttributes.mode, "auto"),
     transparentBackground |-> hostAttributes.transparentBackground = <<"true">>]

\* darkMode.toString()
BooleanToString(b) == IF b THEN "true" ELSE "false"

\* the mount effects: the initial-dark-mode effect, then the apply-and-persist effect;
\* under React.StrictMode (development) both run a second time before any update is applied
MountEffects(strict) ==
    IF strict THEN <<"initial", "apply", "initial", "apply">> ELSE <<"initial", "apply">>

PageInit ==
    /\ inputs = [monthlySpend |-> Num(2000), balanceCarriedPercent |-> Num(50), apr |-> Num(23)]
    /\ CalculatorMounted
    /\ hostAttributes \in [mode : HostModes, transparentBackground : HostTransparentBackgrounds]
    /\ strictMode \in BOOLEAN
    /\ prefersDark \in BOOLEAN
    /\ localStorage \in StoredDarkModes
    /\ savedDarkMode = localStorage
    /\ darkMode = FALSE
    /\ isLoaded = FALSE
    /\ rootElement = [dataTheme |-> Absent, dark |-> FALSE]
    /\ effects = MountEffects(strictMode)
    /\ updates = <<>>
    /\ loadTimers = 0
    /\ toggles = 0

\* useEffect(..., [config.mode]), lines 51-73
initialDarkMode ==
    IF config.mode = "dark" THEN TRUE
    ELSE IF config.mode = "light" THEN FALSE
    ELSE IF localStorage # Absent THEN localStorage = <<"true">>
    ELSE prefersDark

InitialDarkModeEffect ==
    /\ effects # <<>> /\ Head(effects) = "initial"
    /\ updates' = Append(updates, initialDarkMode)
    /\ loadTimers' = loadTimers + 1
    /\ effects' = Tail(effects)
    /\ UNCHANGED <<hostAttributes, strictMode, prefersDark, localStorage, savedDarkMode,
                   darkMode, isLoaded, rootElement, toggles, calculatorVars>>

\* the effect saving the theme whatever the mode
PersistingInEveryMode ==
    /\ effects # <<>> /\ Head(effects) = "apply"
    /\ rootElement' = [dataTheme |-> <<IF darkMode THEN "dark" ELSE "light">>, dark |-> darkMode]
    /\ localStorage' = <<BooleanToString(darkMode)>>
    /\ effects' = Tail(effects)
    /\ UNCHANGED <<hostAttributes, strictMode, prefersDark, savedDarkMode, darkMode,
                   isLoaded, updates, loadTimers, toggles, calculatorVars>>

\* the effect without classList.remove('dark')
NeverRemovingDarkClass ==
    /\ effects # <<>> /\ Head(effects) = "apply"
    /\ rootElement' = [dataTheme |-> <<IF darkMode THEN "dark" ELSE "light">>,
                       dark |-> (darkMode \/ rootElement.dark)]
    /\ localStorage' = IF config.mode = "auto" THEN <<BooleanToString(darkMode)>>
                       ELSE localStorage
    /\ effects' = Tail(effects)
    /\ UNCHANGED <<hostAttributes, strictMode, prefersDark, savedDarkMode, darkMode,
                   isLoaded, updates, loadTimers, toggles, calculatorVars>>

\* useEffect(..., [darkMode, config.mode]), lines 75-92
ApplyDarkModeEffect ==
    /\ effects # <<>> /\ Head(effects) = "apply"
    /\ rootElement' = IF darkMode
                      THEN [dataTheme |-> <<"dark">>, dark |-> TRUE]
                      ELSE [dataTheme |-> <<"light">>, dark |-> FALSE]
    /\ localStorage' = IF config.mode = "auto" THEN <<BooleanToString(darkMode)>>
                       ELSE localStorage
    /\ effects' = Tail(effects)
    /\ UNCHANGED <<hostAttributes, strictMode, prefersDark, savedDarkMode, darkMode,
                   isLoaded, updates, loadTimers, toggles, calculatorVars>>

\* the render that applies the queued setDarkMode calls (the last one wins); the
\* apply effect runs again only if darkMode, its dependency, has changed
RenderDarkMode ==
    /\ effects = <<>> /\ updates # <<>>
    /\ darkMode' = updates[Len(updates)]
    /\ updates' = <<>>
    /\ effects' = IF darkMode' # darkMode THEN <<"apply">> ELSE <<>>
    /\ UNCHANGED <<hostAttributes, strictMode, prefersDark, localStorage, savedDarkMode,
                   isLoaded, rootElement, loadTimers, toggles, calculatorVars>>

\* the toggle button, rendered only in auto mode: onClick={() => setDarkMode(!darkMode)}
ToggleDarkMode ==
    /\ config.mode = "auto"
    /\ effects = <<>> /\ updates = <<>>
    /\ toggles < MaxToggles
    /\ updates' = <<~darkMode>>
    /\ toggles' = toggles + 1
    /\ UNCHANGED <<hostAttributes, strictMode, prefersDark, localStorage, savedDarkMode,
                   darkMode, isLoaded, rootElement, effects, loadTimers, calculatorVars>>

\* setTimeout(() => setIsLoaded(true), 100) fires
LoadTimeout ==
    /\ loadTimers > 0
    /\ loadTimers' = loadTimers - 1
    /\ isLoaded' = TRUE
    /\ UNCHANGED <<hostAttributes, strictMode, prefersDark, localStorage, savedDarkMode,
                   darkMode, rootElement, effects, updates, toggles, calculatorVars>>

\* nothing is left to run
Settled == effects = <<>> /\ updates = <<>>

(***************************************************************************)
(* Projection: the calculator's headline figure and the chart's series     *)
(***************************************************************************)
\* the annuity formula without its zero-rate branch
NoZeroRateBranchFinalValue(years, rate, monthly) ==
    LET monthlyRate == Div(Div(rate, Num(100)), Num(12))
        totalMonths == Mul(years, Num(12))
    IN  MathRound(Mul(monthly,
            Div(Sub(MathPow(Add(Num(1), monthlyRate), totalMonths), Num(1)), monthlyRate)))

\* the annuity formula with each contribution paid at the start of its month
AnnuityDueFinalValue(years, rate, monthly) ==
    LET monthlyRate == Div(Div(rate, Num(100)), Num(12))
        totalMonths == Mul(years, Num(12))
    IN  IF rate = Num(0) \/ monthlyRate = Num(0)
        THEN MathRound(Mul(monthly, totalMonths))
        ELSE MathRound(Mul(Mul(monthly,
                 Div(Sub(MathPow(Add(Num(1), monthlyRate), totalMonths), Num(1)), monthlyRate)),
                 Add(Num(1), monthlyRate)))

\* the formula returning futureValue without Math.round
UnroundedFinalValue(years, rate, monthly) ==
    LET monthlyRate == Div(Div(rate, Num(100)), Num(12))
        totalMonths == Mul(years, Num(12))
    IN  IF rate = Num(0) \/ monthlyRate = Num(0)
        THEN Mul(monthly, totalMonths)
        ELSE Mul(monthly,
                 Div(Sub(MathPow(Add(Num(1), monthlyRate), totalMonths), Num(1)), monthlyRate))

\* CreditCardCalculator.calculateInvestmentFinalValue
calculateInvestmentFinalValue(years, rate, monthly) ==
    LET monthlyRate == Div(Div(rate, Num(100)), Num(12))
        totalMonths == Mul(years, Num(12))
    IN  IF rate = Num(0) \/ monthlyRate = Num(0)
        THEN MathRound(Mul(monthly, totalMonths))
        ELSE LET futureValue ==
                     Mul(monthly,
                         Div(Sub(MathPow(Add(Num(1), monthlyRate), totalMonths), Num(1)),
                             monthlyRate))
             IN  MathRound(futureValue)

\* Math.pow(n / d, k) for n / d >= 1, enclosed between two multiples of 1 / PowScale:
\* every product is rounded down (PowBelow) or up (PowAbove) to the scale, so the
\* power itself lies between the two
PowScale == 2000000

RECURSIVE StepsBelow(_, _, _, _)
StepsBelow(n, d, start, k) ==
    IF k = 0 THEN start ELSE (StepsBelow(n, d, start, k - 1) * n) \div d

RECURSIVE StepsAbove(_, _, _, _)
StepsAbove(n, d, start, k) ==
    IF k = 0 THEN start ELSE (StepsAbove(n, d, start, k - 1) * n + d - 1) \div d

\* twelve factors at a time
RECURSIVE PowBelow(_, _, _)
PowBelow(n, d, k) ==
    IF k <= 12
    THEN StepsBelow(n, d, PowScale, k)
    ELSE CHOOSE power \in { StepsBelow(n, d, x, 12) : x \in { PowBelow(n, d, k - 12) } } : TRUE

RECURSIVE PowAbove(_, _, _)
PowAbove(n, d, k) ==
    IF k <= 12
    THEN StepsAbove(n, d, PowScale, k)
    ELSE CHOOSE power \in { StepsAbove(n, d, x, 12) : x \in { PowAbove(n, d, k - 12) } } : TRUE

\* calculateInvestmentFinalValue for a positive rate and a whole number of months, its
\* Math.pow enclosed as above: <<least, greatest>> value the result can have
FinalValueBounds(years, rate, monthly) ==
    LET monthlyRate == Div(Div(rate, Num(100)), Num(12))
        totalMonths == Mul(years, Num(12))
        base == Add(Num(1), monthlyRate)
        futureValue(power) ==
            Mul(monthly, Div(Sub(Norm(power, PowScale), Num(1)), monthlyRate))
    IN  << MathRound(futureValue(PowBelow(base[1], base[2], totalMonths[1]))),
           MathRound(futureValue(PowAbove(base[1], base[2], totalMonths[1]))) >>

investmentYears == Coalesce(investmentInputs.timePeriod, Num(10))
investmentRate == Coalesce(investmentInputs.returnRate, Num(9))
investmentFinalValue ==
    calculateInvestmentFinalValue(investmentYears, investmentRate, monthlySavings)
totalInterestSaved == Mul(Mul(monthlySavings, Num(12)), investmentYears)

\* the conclusion card ("N Year Savings"), rendered in both layouts
customPeriodYears == OrDefault(investmentInputs.timePeriod, Num(10))
customPeriodSavings == Mul(annualInterest, customPeriodYears)

\* the props handed to <InvestmentChart> (the same in the mobile and the desktop layout)
monthlyContribution == monthlySavings
annualRate == Coalesce(investmentInputs.returnRate, Num(9))
maxYears == Coalesce(investmentInputs.timePeriod, Num(10))

\* InvestmentChart.calculateInvestmentGrowth, its props made parameters
calculateInvestmentGrowth(years, rate, monthly) ==
    LET monthlyRate == Div(Div(rate, Num(100)), Num(12))
        totalMonths == Mul(years, Num(12))
        futureValue ==
            Mul(monthly,
                Div(Sub(MathPow(Add(Num(1), monthlyRate), totalMonths), Num(1)), monthlyRate))
    IN  MathRound(futureValue)

\* InvestmentChart.generateChartData: for (let year = 0; year <= maxYears; year++)
RECURSIVE ChartLoop(_, _, _, _, _)
ChartLoop(year, limit, rate, monthly, points) ==
    IF Le(Num(year), limit)
    THEN ChartLoop(year + 1, limit, rate, monthly,
                   Append(points,
                          [label |-> NatToString(year),
                           data |-> calculateInvestmentGrowth(Num(year), rate, monthly),
                           totalInvested |-> Mul(Mul(monthly, Num(12)), Num(year))]))
    ELSE points

generateChartData(limit, rate, monthly) == ChartLoop(0, limit, rate, monthly, <<>>)

chartData == generateChartData(maxYears, annualRate, monthlyContribution)

\* data[data.length - 1] || 0 (undefined, 0 and NaN all give 0)
finalValue == IF chartData = <<>> THEN Num(0) ELSE OrZero(chartData[Len(chartData)].data)
finalInvested ==
    IF chartData = <<>> THEN Num(0) ELSE OrZero(chartData[Len(chartData)].totalInvested)
totalGains == Sub(finalValue, finalInvested)

(***************************************************************************)
(* What the component renders: the static text of its headings, labels and *)
(* sentences, each a sequence of words, and the query the test makes of it *)
(***************************************************************************)
HeaderTexts ==
    { <<"0%", "Interest", "Forever!", "Calculator">>,
      <<"Calculate", "your", "annual", "credit", "card", "interest", "costs", "and",
         "compare", "them", "to", "potential", "investment", "returns.">>,
      <<"Optimize", "your", "financial", "strategy", "by", "understanding", "the", "true",
         "cost", "of", "carrying", "credit", "card", "debt.">> }

CalculatorCardTexts ==
    { <<"See", "what", "0%", "APR", "could", "save", "you">>,
      <<"Monthly", "credit", "card", "spend">>,
      <<"Average", "balance", "paid", "off", "each", "month">>,
      <<"Average", "interest", "rate", "each", "month", "APR", "on", "your", "credit",
         "card">> }

InvestmentTexts ==
    { <<"Let's", "imagine", "you", "put", "that", "saved", "money", "into", "an",
         "investment", "portfolio", "for", "the", "next", "ten", "years">>,
      <<"Investment", "Time", "Period", "(Years)">>,
      <<"Expected", "Annual", "Return", "Rate", "(%)">>,
      <<"By", "switching", "to">>,
      <<"SPZero's", "0%", "APR", "card">>,
      <<",", "you", "could", "save">>,
      <<"Important", "Disclaimer">>,
      <<"Actual", "investment", "returns", "may", "vary", "significantly.", "Past",
         "performance", "does", "not", "guarantee", "future", "results.">>,
      <<"Consider", "consulting", "with", "a", "financial", "advisor", "before", "making",
         "investment", "decisions.", "This", "tool", "is", "not", "financial", "advice.">> }

ConclusionTexts ==
    { <<"Your", "Financial", "Journey">>,
      <<"See", "the", "impact", "of", "switching", "to", "SPZero", "over", "time">>,
      <<"Year", "1", "Savings">>,
      <<"Interest", "saved", "annually">>,
      <<"5", "Year", "Savings">>,
      <<"Total", "interest", "saved">>,
      <<"Year", "Savings">>,
      <<"By", "switching", "to", "SPZero's", "0%", "APR", "card,", "you", "could", "save">>,
      <<"years", "that", "would", "have", "been", "lost", "to", "interest", "payments">> }

\* InvestmentChart, which the mobile layout leaves to render the investment section,
\* words it as the calculator does on the desktop layout
ChartTexts == InvestmentTexts

\* the header, the calculator card, the investment section of the layout, the conclusion
RenderedTexts ==
    HeaderTexts \cup CalculatorCardTexts
    \cup (IF isMobile THEN ChartTexts ELSE InvestmentTexts)
    \cup ConclusionTexts

\* the i flag of a regular expression: the words written with a capital letter
FoldedWords ==
    ("(Years)" :> "(years)") @@ ("APR" :> "apr") @@ ("Actual" :> "actual") @@
    ("Annual" :> "annual") @@ ("Average" :> "average") @@ ("By" :> "by") @@
    ("Calculate" :> "calculate") @@ ("Calculator" :> "calculator") @@ ("Consider" :> "consider") @@
    ("Disclaimer" :> "disclaimer") @@ ("Expected" :> "expected") @@ ("Financial" :> "financial") @@
    ("Forever!" :> "forever!") @@ ("Important" :> "important") @@ ("Interest" :> "interest") @@
    ("Investment" :> "investment") @@ ("Journey" :> "journey") @@ ("Let's" :> "let's") @@
    ("Monthly" :> "monthly") @@ ("Optimize" :> "optimize") @@ ("Past" :> "past") @@
    ("Period" :> "period") @@ ("Rate" :> "rate") @@ ("Return" :> "return") @@
    ("SPZero" :> "spzero") @@ ("SPZero's" :> "spzero's") @@ ("Savings" :> "savings") @@
    ("See" :> "see") @@ ("This" :> "this") @@ ("Time" :> "time") @@
    ("Total" :> "total") @@ ("Year" :> "year") @@ ("Your" :> "your")
FoldCase(word) == IF word \in DOMAIN FoldedWords THEN FoldedWords[word] ELSE word

\* text matches /pattern/i: the words of the pattern occur in it, one after the other
MatchesPattern(text, pattern) ==
    \E i \in 1..(Len(text) - Len(pattern) + 1) :
        \A j \in 1..Len(pattern) : FoldCase(text[i + j - 1]) = pattern[j]

\* screen.getByText(/pattern/i) finds an element
getByText(pattern) == \E text \in RenderedTexts : MatchesPattern(text, pattern)

(***************************************************************************)
(* Where the exact arithmetic of this model can follow Math.pow: the power *)
(* has a whole exponent and stays below MaxPower.                          *)
(***************************************************************************)
MaxPower == 4096

RECURSIVE PowerWithin(_, _, _)
PowerWithin(b, k, limit) ==
    k = 0 \/ b <= 1 \/ (b <= limit /\ PowerWithin(b, k - 1, limit \div b))

PowExact(base, e) ==
    /\ IsFinite(base) /\ IsFinite(e) /\ IsInteger(e)
    /\ PowerWithin(IF Abs(base[1]) > base[2] THEN Abs(base[1]) ELSE base[2], Abs(e[1]), MaxPower)

MonthlyBase(rate) == Add(Num(1), Div(Div(rate, Num(100)), Num(12)))

CalculatorExact ==
    investmentRate = Num(0) \/ PowExact(MonthlyBase(investmentRate), Mul(investmentYears, Num(12)))
ChartExact ==
    Lt(maxYears, Num(0)) \/ PowExact(MonthlyBase(annualRate), Num(12 * Floor(maxYears)))
ProjectionExact == CalculatorExact /\ ChartExact

(***************************************************************************)
(* Properties                                                              *)
(***************************************************************************)
Half == <<1, 2>>
EnteredValue == NumberOrZero(TargetValue(lastEvent.text))

\* C1: in every reachable state balanceCarriedPercent is in [0,100],
\* monthlySpend >= 0 and apr >= 0.
C1_StoredInputsInRange ==
    /\ Le(Num(0), inputs.balanceCarriedPercent)
    /\ Le(inputs.balanceCarriedPercent, Num(100))
    /\ Le(Num(0), inputs.monthlySpend)
    /\ Le(Num(0), inputs.apr)

\* p is q rounded to the nearest whole number (a tie going up) and then clamped to
\* [0,100]: said with comparisons only
IsClampedRound(p, q) ==
    /\ IsFinite(p) /\ IsInteger(p)
    /\ Le(Num(0), p) /\ Le(p, Num(100))
    /\ (Lt(Num(0), p) => Le(Sub(p, Half), q))
    /\ (Lt(p, Num(100)) => Lt(q, Add(p, Half)))

C3_ZeroSpendGivesZeroPercent ==
    (/\ lastEvent.handler \in {"desktopPaidOffChange", "mobilePaidOffChange"}
     /\ inputs.monthlySpend = Num(0))
    => inputs.balanceCarriedPercent = Num(0)

\* C3 witness: a non-empty amount entered on the mobile card while the spend is 0
C3_Witness ==
    /\ lastEvent = Event("mobilePaidOffChange", <<"2", "9">>)
    /\ inputs.monthlySpend = Num(0)
    /\ inputs.balanceCarriedPercent = Num(0)

\* C4: no reachable inputs make a computed output NaN or infinite: annualInterest,
\* monthlySavings, investmentFinalValue, every point of the chart series, finalValue
\* and totalGains are finite (stated where the model follows Math.pow exactly).
C4_AllOutputsFinite ==
    ProjectionExact =>
        /\ IsFinite(annualInterest) /\ IsFinite(monthlySavings)
        /\ IsFinite(investmentFinalValue)
        /\ \A i \in 1..Len(chartData) :
               IsFinite(chartData[i].data) /\ IsFinite(chartData[i].totalInvested)
        /\ IsFinite(finalValue) /\ IsFinite(totalGains)

\* C5: for every year of the series the chart's value equals the calculator's
\* calculateInvestmentFinalValue for that year, so (for a whole horizon) the headline
\* final value equals the last point of the series.
C5_ChartMatchesCalculator ==
    ProjectionExact =>
        /\ \A i \in 1..Len(chartData) :
               chartData[i].data =
                   calculateInvestmentFinalValue(Num(i - 1), annualRate, monthlyContribution)
        /\ (IsInteger(maxYears) /\ Le(Num(0), maxYears)) =>
               investmentFinalValue = chartData[Len(chartData)].data

ZeroRateCase ==
    /\ investmentRate = Num(0)
    /\ Le(Num(0), investmentYears)
    /\ Le(Num(0), monthlySavings)
LinearTotal == Mul(Mul(monthlySavings, investmentYears), Num(12))

\* C6 as stated: finalValue(years, 0, m) equals m * years * 12 for all years >= 0, m >= 0.
C6_ZeroRateIsExactProduct ==
    ZeroRateCase => investmentFinalValue = LinearTotal

\* C6 as amended: finalValue(years, 0, m) is m * years * 12 rounded to the nearest
\* whole number (so it is m * years * 12 itself whenever that is whole: finalValue(10, 0, 500)
\* is 60000).
C6_ZeroRateIsRoundedProduct ==
    /\ ZeroRateCase =>
           /\ IsFinite(investmentFinalValue) /\ IsInteger(investmentFinalValue)
           /\ Lt(Sub(LinearTotal, Half), investmentFinalValue)
           /\ Le(investmentFinalValue, Add(LinearTotal, Half))
    /\ calculateInvestmentFinalValue(Num(10), Num(0), Num(500)) = Num(60000)

\* C6 witness: rate 0 entered, one year, 43.7 of interest a year: the headline is 44
C6_Witness ==
    /\ ZeroRateCase
    /\ lastEvent = Event("returnRateChange", <<"0">>)
    /\ investmentYears = Num(1)
    /\ LinearTotal = <<437, 10>>
    /\ investmentFinalValue = Num(44)

\* C7: finalValue(0, r, m) is 0 for every rate r and contribution m the program can
\* hold, in calculateInvestmentFinalValue and in the chart's calculateInvestmentGrowth.
C7_ZeroYearsGiveZero ==
    /\ calculateInvestmentFinalValue(Num(0), investmentRate, monthlySavings) = Num(0)
    /\ calculateInvestmentGrowth(Num(0), annualRate, monthlyContribution) = Num(0)

\* C8: the first point of the chart series is (year 0, contributed 0, value 0) for
\* every maxYears >= 0, every annualRate and every monthlyContribution.
C8_FirstPointIsOrigin ==
    (ChartExact /\ Le(Num(0), maxYears)) =>
        chartData[1] = [label |-> <<"0">>, data |-> Num(0), totalInvested |-> Num(0)]

\* C9: for every stored timePeriod (or the default when it is null) the series has
\* exactly timePeriod + 1 points, labelled 0, 1, ..., timePeriod in increasing order.
C9_SeriesCoversHorizon ==
    ChartExact =>
        /\ Num(Len(chartData)) = Add(maxYears, Num(1))
        /\ \A i \in 1..Len(chartData) : chartData[i].label = NatToString(i - 1)

\* C10: timePeriod is null or a positive integer, and returnRate is null or a
\* non-negative number, in every reachable state.
C10_InvestmentInputsValid ==
    /\ \/ IsNull(investmentInputs.timePeriod)
       \/ /\ IsFinite(investmentInputs.timePeriod) /\ IsInteger(investmentInputs.timePeriod)
          /\ Lt(Num(0), investmentInputs.timePeriod)
    /\ \/ IsNull(investmentInputs.returnRate)
       \/ Le(Num(0), investmentInputs.returnRate)

StoredOr(x, dflt) == IF x = Null THEN dflt ELSE x

\* C11: with timePeriod null every computation uses a horizon of 10 years and with
\* returnRate null a rate of 9 percent; a stored number is used as it is. The
\* computations are the headline figures, the chart's props and the conclusion card.
C11_DefaultsOnlyWhenNull ==
    LET years == StoredOr(investmentInputs.timePeriod, Num(10))
        rate == StoredOr(investmentInputs.returnRate, Num(9))
    IN  /\ investmentYears = years /\ maxYears = years /\ customPeriodYears = years
        /\ investmentRate = rate /\ annualRate = rate
        /\ totalInterestSaved = Mul(Mul(monthlySavings, Num(12)), years)
        /\ customPeriodSavings = Mul(annualInterest, years)

\* C12: in every state paidOffBalance = monthlySpend * balanceCarriedPercent / 100,
\* carriedBalance = monthlySpend - paidOffBalance, annualInterest = carriedBalance * apr / 100
\* and monthlySavings = annualInterest / 12, from the current inputs; for the initial
\* inputs (2000, 50, 23) they are 1000, 1000, 230 and 19.17 to the cent.
C12_DerivedScalars ==
    /\ Mul(paidOffBalance, Num(100)) = Mul(inputs.monthlySpend, inputs.balanceCarriedPercent)
    /\ Add(carriedBalance, paidOffBalance) = inputs.monthlySpend
    /\ Mul(annualInterest, Num(100)) = Mul(carriedBalance, inputs.apr)
    /\ Mul(monthlySavings, Num(12)) = annualInterest
    /\ (inputs = [monthlySpend |-> Num(2000), balanceCarriedPercent |-> Num(50), apr |-> Num(23)]
        => /\ paidOffBalance = Num(1000) /\ carriedBalance = Num(1000)
           /\ annualInterest = Num(230)
           /\ Lt(<<19165, 1000>>, monthlySavings) /\ Lt(monthlySavings, <<19175, 1000>>))

\* C12 witness: after 29 is entered against a spend of 200 (stored as 15 percent) the
\* scalars are 30, 170, 39.1 and 391/120
C12_Witness ==
    /\ lastEvent = Event("desktopPaidOffChange", <<"2", "9">>)
    /\ inputs.monthlySpend = Num(200)
    /\ inputs.apr = Num(23)
    /\ paidOffBalance = Num(30) /\ carriedBalance = Num(170)
    /\ annualInterest = <<391, 10>> /\ monthlySavings = <<391, 120>>

PaidOffHandlers == {"desktopPaidOffChange", "mobilePaidOffChange"}

\* C13: right after a paid-off amount d with 0 <= d <= monthlySpend is entered and
\* monthlySpend > 0, paidOffBalance (recomputed from the stored percent) differs from d
\* by at most 0.5 percent of monthlySpend; with monthlySpend = 0 it is 0.
C13_PaidOffRoundTrip ==
    lastEvent.handler \in PaidOffHandlers =>
        /\ (/\ Lt(Num(0), inputs.monthlySpend)
            /\ Le(Num(0), EnteredValue) /\ Le(EnteredValue, inputs.monthlySpend))
           => LET tolerance == Div(Mul(inputs.monthlySpend, Half), Num(100))
              IN  /\ Le(Sub(EnteredValue, tolerance), paidOffBalance)
                  /\ Le(paidOffBalance, Add(EnteredValue, tolerance))
        /\ inputs.monthlySpend = Num(0) => paidOffBalance = Num(0)

\* C13 witness: 29 entered against 200 is stored as 15 percent and read back as 30,
\* one dollar (0.5 percent of 200) away
C13_Witness ==
    /\ lastEvent = Event("desktopPaidOffChange", <<"2", "9">>)
    /\ inputs.monthlySpend = Num(200)
    /\ EnteredValue = Num(29)
    /\ paidOffBalance = Num(30)

\* C14: for monthlySpend > 0 and percent in [0,100], right after a paid-off-dollar edit
\* with value monthlySpend * percent / 100 the stored balanceCarriedPercent is
\* round(percent). (Every entered value d with 0 <= d <= monthlySpend is such a value,
\* for percent = d * 100 / monthlySpend.)
C14_PaidOffStoresRoundedPercent ==
    LET percent == Div(Mul(EnteredValue, Num(100)), inputs.monthlySpend)
    IN  (/\ lastEvent.handler \in PaidOffHandlers
         /\ Lt(Num(0), inputs.monthlySpend)
         /\ Le(Num(0), percent) /\ Le(percent, Num(100)))
        => /\ IsInteger(inputs.balanceCarriedPercent)
           /\ Le(Sub(percent, Half), inputs.balanceCarriedPercent)
           /\ Le(inputs.balanceCarriedPercent, Add(percent, Half))

MonthlySpendHandlers ==
    {"mobileMonthlySpendChange", "mobileMonthlySpendBlur",
     "desktopMonthlySpendChange", "desktopMonthlySpendBlur"}
PercentHandlers ==
    {"mobilePaidOffChange", "mobilePaidOffBlur", "mobileSliderChange",
     "desktopPaidOffChange", "desktopPaidOffBlur", "desktopSliderChange"}
AprHandlers == {"mobileAprChange", "mobileAprBlur", "desktopAprChange", "desktopAprBlur"}
TimePeriodHandlers == {"timePeriodChange", "chartTimePeriodChange"}
ReturnRateHandlers == {"returnRateChange", "chartReturnRateChange"}

EditKeepsOtherFields ==
    LET h == lastEvent'.handler
    IN  /\ h \in MonthlySpendHandlers =>
               /\ inputs'.balanceCarriedPercent = inputs.balanceCarriedPercent
               /\ inputs'.apr = inputs.apr
        /\ h \in PercentHandlers =>
               /\ inputs'.monthlySpend = inputs.monthlySpend
               /\ inputs'.apr = inputs.apr
        /\ h \in AprHandlers =>
               /\ inputs'.monthlySpend = inputs.monthlySpend
               /\ inputs'.balanceCarriedPercent = inputs.balanceCarriedPercent
        /\ h \in MonthlySpendHandlers \cup PercentHandlers \cup AprHandlers =>
               investmentInputs' = investmentInputs
        /\ h \in TimePeriodHandlers =>
               /\ inputs' = inputs
               /\ investmentInputs'.returnRate = investmentInputs.returnRate
        /\ h \in ReturnRateHandlers =>
               /\ inputs' = inputs
               /\ investmentInputs'.timePeriod = investmentInputs.timePeriod

\* C15: an edit of one calculator field changes only that field: a monthlySpend edit
\* leaves balanceCarriedPercent and apr unchanged, a percent or paid-off-dollar edit
\* leaves monthlySpend and apr unchanged, an APR edit leaves monthlySpend and
\* balanceCarriedPercent unchanged, no calculator edit changes timePeriod or
\* returnRate, and no investment edit changes the calculator inputs.
C15_EditChangesOnlyItsField == [][EditKeepsOtherFields]_vars

\* C15 witness: the spend has just been edited to 200 while the percent, the APR and
\* the horizon hold values entered before
C15_Witness ==
    /\ lastEvent = Event("desktopMonthlySpendChange", <<"2", "0", "0">>)
    /\ inputs = [monthlySpend |-> Num(200), balanceCarriedPercent |-> Num(5), apr |-> Num(300)]
    /\ investmentInputs.timePeriod = Num(1)

\* C16: right after a monthlySpend onChange the stored monthlySpend is max(0, value):
\* 0 for an empty field, for text that is no number and for a negative number, the
\* number itself otherwise; never negative, never NaN.
C16_MonthlySpendClamped ==
    lastEvent.handler \in {"desktopMonthlySpendChange", "mobileMonthlySpendChange"} =>
        /\ IsFinite(inputs.monthlySpend) /\ Le(Num(0), inputs.monthlySpend)
        /\ lastEvent.text \in { <<>>, <<"-">>, <<"-", "5">> } => inputs.monthlySpend = Num(0)
        /\ lastEvent.text = <<"2", "0", "0">> => inputs.monthlySpend = Num(200)

\* C16 witness: -5 typed into the desktop field, 0 stored
C16_Witness ==
    /\ lastEvent = Event("desktopMonthlySpendChange", <<"-", "5">>)
    /\ inputs.monthlySpend = Num(0)

\* the balance a given number of months on: each month the balance is multiplied by
\* (1 + monthlyRate) and then the contribution is added
RECURSIVE BalanceAfter(_, _, _, _)
BalanceAfter(months, start, monthlyRate, monthly) ==
    IF months = 0
    THEN start
    ELSE Add(Mul(BalanceAfter(months - 1, start, monthlyRate, monthly),
                 Add(Num(1), monthlyRate)),
             monthly)

\* the balances of that walk from 0 at the end of year 0, 1, ..., years
RECURSIVE YearlyBalances(_, _, _)
YearlyBalances(years, monthlyRate, monthly) ==
    IF years = 0
    THEN << Num(0) >>
    ELSE CHOOSE balances \in
             { Append(before, BalanceAfter(12, before[Len(before)], monthlyRate, monthly)) :
                   before \in { YearlyBalances(years - 1, monthlyRate, monthly) } } : TRUE

\* the balance of the walk from 0 after any whole number of months
AnnuityBalance(months, monthlyRate, monthly) ==
    LET yearly == YearlyBalances(months \div 12, monthlyRate, monthly)
    IN  BalanceAfter(months % 12, yearly[Len(yearly)], monthlyRate, monthly)

WholeMonths(years) ==
    IsFinite(years) /\ Le(Num(0), years) /\ IsInteger(Mul(years, Num(12)))
MonthsOf(years) == Mul(years, Num(12))[1]
MonthlyRateOf(rate) == Div(rate, Num(1200))

\* C17: for a non-zero annual rate, finalValue(years, rate, m) is the future value of an
\* ordinary annuity rounded to a whole number: the balance reached by starting from 0
\* and, for each of years * 12 months, multiplying by (1 + rate / 100 / 12) and then
\* adding m. Stated for the headline figure and for every point of the chart, where
\* the power is within reach of exact arithmetic, and (once, at mount) for 12 months
\* at 600, 300 and -600 percent.
C17_AnnuityFutureValue ==
    /\ investmentYears = maxYears /\ investmentRate = annualRate
    /\ (/\ annualRate # Num(0) /\ ProjectionExact /\ Le(Num(0), maxYears))
       => LET monthlyRate == MonthlyRateOf(annualRate)
              points == chartData
              balances == YearlyBalances(Floor(maxYears), monthlyRate, monthlyContribution)
              months == MonthsOf(investmentYears)
          IN  /\ [i \in 1..Len(points) |-> points[i].data] =
                     [i \in 1..Len(balances) |-> MathRound(balances[i])]
              /\ WholeMonths(investmentYears)
                 => investmentFinalValue =
                        MathRound(BalanceAfter(months % 12, balances[months \div 12 + 1],
                                               monthlyRate, monthlySavings))
    /\ lastEvent.handler = "mount"
       => \A c \in { <<600, 1>>, <<600, 500>>, <<300, 1>>, <<-600, 7>> } :
              calculateInvestmentFinalValue(Num(1), Num(c[1]), Num(c[2])) =
                  MathRound(AnnuityBalance(12, MonthlyRateOf(Num(c[1])), Num(c[2])))

\* C17 witness: 1200 percent entered with a horizon of one year and 230 of interest a
\* year: twelve doublings-plus-contribution give 230/12 * 4095 = 78487.5, shown as 78488
C17_Witness ==
    /\ lastEvent = Event("returnRateChange", <<"1", "2", "0", "0">>)
    /\ investmentYears = Num(1)
    /\ monthlySavings = <<115, 6>>
    /\ investmentFinalValue = Num(78488)

\* the figure lies within one percent of the given value, for some value of the enclosure
About(bounds, figure) ==
    /\ Le(Sub(Num(figure), Div(Num(figure), Num(100))), bounds[2])
    /\ Le(bounds[1], Add(Num(figure), Div(Num(figure), Num(100))))

\* C18: finalValue(10, 9, 500) gives a total invested of 60000, a compounded value of
\* about 95650 and gains of about 35650 (about: within one percent); stated of the
\* headline figures in the states with a horizon of 10 years, a rate of 9 percent and
\* monthly savings of 500.
C18_ExampleFigures ==
    (/\ investmentYears = Num(10) /\ investmentRate = Num(9) /\ monthlySavings = Num(500))
    => LET value == FinalValueBounds(investmentYears, investmentRate, monthlySavings)
           invested == totalInterestSaved
           gains == << Sub(value[1], invested), Sub(value[2], invested) >>
       IN  /\ invested = Num(60000)
           /\ About(value, 95650)
           /\ About(gains, 35650)

\* C19: for every monthlyContribution >= 0 and every horizon and return rate that can
\* be stored, totalGains (the last point's value less the amount contributed) is >= 0.
C19_GainsNotNegative ==
    (ChartExact /\ Le(Num(0), monthlyContribution)) => Le(Num(0), totalGains)

\* C20: in every reachable state monthlySavings, handed to the chart as
\* monthlyContribution, is >= 0, carriedBalance lies in [0, monthlySpend], and the
\* contributed amounts of the series do not decrease from one year to the next.
C20_ContributionNotNegative ==
    /\ Le(Num(0), monthlyContribution)
    /\ Le(Num(0), carriedBalance) /\ Le(carriedBalance, inputs.monthlySpend)
    /\ ChartExact =>
           LET points == chartData
           IN  \A i \in 1..(Len(points) - 1) :
                   Le(points[i].totalInvested, points[i + 1].totalInvested)

IsWhole(v) == IsFinite(v) /\ IsInteger(v)

C22_RendersYourCurrentCard ==
    getByText(<<"your", "current", "card">>)

\* C24: in every reachable state the horizon of the headline figures (timePeriod ?? 10)
\* is the number of years shown by the conclusion card (timePeriod || 10), so
\* totalInterestSaved is annualInterest times the displayed number of years.
C24_HeadlineHorizonIsShownHorizon ==
    /\ investmentYears = customPeriodYears
    /\ totalInterestSaved = Mul(annualInterest, customPeriodYears)

\* C25: from the same inputs and for the same entered value the mobile and the
\* desktop paid-off-dollar handlers store the same balanceCarriedPercent, and the
\* mobile and the desktop APR handlers store the same apr.
C25_MobileAndDesktopAgree ==
    /\ \A raw \in PaidOffTexts :
           LET value == NumberOrZero(TargetValue(raw))
           IN  MobilePaidOffPercent(value, inputs.monthlySpend) =
                   DesktopPaidOffPercent(value, inputs.monthlySpend)
    /\ \A raw \in AprTexts :
           LET value == NumberOrZero(TargetValue(raw))
           IN  MobileApr(value) = DesktopApr(value)

\* C23: a dollar amount d (0 < d <= monthlySpend, monthlySpend > 0) typed into the
\* desktop paid-off field key by key, the field being re-derived from the state after
\* each key, leaves balanceCarriedPercent = round(d / monthlySpend * 100).
C23_TypedAmountStoresItsPercent ==
    LET d == ParseNumber(typed)
    IN  (/\ typed # <<>>
         /\ Lt(Num(0), inputs.monthlySpend)
         /\ Lt(Num(0), d) /\ Le(d, inputs.monthlySpend))
        => inputs.balanceCarriedPercent =
               MathRound(Div(Mul(d, Num(100)), inputs.monthlySpend))

\* every timer fired means no animation; only an edit (which sets a timer) starts one;
\* and every animation is ended by a timer
NoTimerNoAnimation == timers = 0 => ~isAnimating
AnimationStartsWithAnEdit == (~isAnimating /\ isAnimating') => timers' = timers + 1

\* C29: after any edits of the calculator or the investment inputs, however closely
\* spaced, isAnimating is false once every pending 300 ms timer has fired, stays false
\* until the next edit, and is false again some time after every edit.
C29_AnimationEnds ==
    /\ []NoTimerNoAnimation
    /\ [][AnimationStartsWithAnEdit]_vars
    /\ (isAnimating ~> ~isAnimating)

\* C29 witness: two keys typed within 300 ms; the first key's timer has fired, that of
\* the second is still pending
C29_Witness ==
    /\ lastEvent = Event("timeout", <<>>)
    /\ Len(typed) = 2
    /\ timers = 1
    /\ ~isAnimating

\* C26: in auto mode with a saved 'darkMode' in localStorage, once the mount effects
\* and the updates they queue have settled (and before any click), darkMode is the
\* saved value and localStorage still holds it, whether the mount effects ran once or,
\* as under React.StrictMode, twice before the first update was applied.
C26_SavedDarkModeRestored ==
    (/\ config.mode = "auto" /\ savedDarkMode # Absent
     /\ Settled /\ toggles = 0)
    => /\ darkMode = (savedDarkMode = <<"true">>)
       /\ localStorage = savedDarkMode

\* C27: in auto mode, after any number of clicks on the toggle, once the effects have
\* run, localStorage 'darkMode' is the string form of darkMode and the root element has
\* the class 'dark' and data-theme 'dark' exactly when darkMode is true.
C27_ThemeFollowsDarkMode ==
    (config.mode = "auto" /\ Settled)
    => /\ localStorage = <<BooleanToString(darkMode)>>
       /\ rootElement.dark <=> darkMode
       /\ rootElement.dataTheme = <<"dark">> <=> darkMode
       /\ rootElement.dataTheme \in { <<"dark">>, <<"light">> }

\* C27 witness: a page restored to dark, then switched to light and back by two clicks
C27_Witness ==
    /\ config.mode = "auto" /\ Settled
    /\ savedDarkMode = <<"true">> /\ ~strictMode
    /\ toggles = 2
    /\ darkMode /\ localStorage = <<"true">>
    /\ rootElement = [dataTheme |-> <<"dark">>, dark |-> TRUE]

\* C28: with config.mode 'light' or 'dark' nothing writes localStorage 'darkMode': it
\* holds what it held when the page was loaded.
C28_FixedModeNeverSaves ==
    config.mode \in {"light", "dark"} => localStorage = savedDarkMode

\* C28 witness: mode 'dark' with 'false' saved earlier: the page has turned dark and
\* the saved preference is still 'false'
C28_Witness ==
    /\ config.mode = "dark" /\ Settled
    /\ darkMode /\ rootElement.dark
    /\ savedDarkMode = <<"false">> /\ localStorage = <<"false">>

\* C30: whatever the host's data-mode attribute (absent, empty, any string), config.mode
\* is one of 'auto', 'light', 'dark', 'auto' being the default; and
\* transparentBackground is true only when data-transparent-background is "true".
C30_ConfigIsValid ==
    /\ config.mode \in {"auto", "light", "dark"}
    /\ hostAttributes.mode \in {Absent, <<"">>} => config.mode = "auto"
    /\ config.transparentBackground => hostAttributes.transparentBackground = <<"true">>

Next ==
    \/ checkMobile
    \/ AnimationTimeout
    \/ MobileMonthlySpendChange
    \/ MobileMonthlySpendBlur
    \/ MobilePaidOffChange
    \/ MobilePaidOffBlur
    \/ MobileSliderChange
    \/ MobileAprChange
    \/ MobileAprBlur
    \/ DesktopMonthlySpendChange
    \/ DesktopMonthlySpendBlur
    \/ DesktopPaidOffChange
    \/ DesktopPaidOffBlur
    \/ DesktopSliderChange
    \/ DesktopAprChange
    \/ DesktopAprBlur
    \/ TimePeriodChange
    \/ ReturnRateChange
    \/ ChartTimePeriodChange
    \/ ChartReturnRateChange

Spec == Init /\ [][Next]_vars

\* typing on the desktop layout; a timer that was set does fire (setTimeout)
TypingNext ==
    \/ DesktopPaidOffKeystroke
    \/ TimePeriodKeystroke
    \/ AnimationTimeout

\* the page from its load on
PageNext ==
    \/ InitialDarkModeEffect
    \/ ApplyDarkModeEffect
    \/ RenderDarkMode
    \/ ToggleDarkMode
    \/ LoadTimeout

PageSpec == PageInit /\ [][PageNext]_vars

TypingSpec == TypingInit /\ [][TypingNext]_vars /\ WF_vars(AnimationTimeout)

====
